---- MODULE Spec2Model ----
(***************************************************************************)
(* A model of src/src/lab.c: the shell's line normalizer (trim_white),     *)
(* tokenizer (cmd_parse, strdup_failure, cmd_free), built-in dispatcher    *)
(* (do_builtin, change_dir, print_history) and session controller          *)
(* (get_prompt, sh_init, sh_destroy).                                      *)
(*                                                                         *)
(* C strings are sequences of one-character strings (without their         *)
(* terminator unless a buffer is modelled byte by byte).  A pointer that   *)
(* may be NULL and otherwise points at a string is a sequence of length    *)
(* at most one: << >> is NULL, <<s>> points at s.                          *)
(***************************************************************************)
EXTENDS Integers, Sequences, FiniteSets

\* ------------------------------------------------------------------ bounds

\* Longest input line of the tokenizer (besides the two named lines below).
MaxLen == 5

\* The value sysconf(_SC_ARG_MAX) returns: the vector has ArgMax slots.
ArgMax == 4

\* Longest text of a buffer handed to trim_white (besides the named one).
MaxBuf == 4

\* ------------------------------------------------------------- characters

ParseChars == {" ", "\t", "a", "b"}

\* The second argument of both strtok calls: " \t".
Delims == {" ", "\t"}

RECURSIVE SeqsUpTo(_, _)
SeqsUpTo(S, n) ==
    IF n = 0 THEN {<< >>}
    ELSE LET shorter == SeqsUpTo(S, n - 1)
         IN  shorter \cup {Append(s, c) : s \in {t \in shorter : Len(t) = n - 1}, c \in S}

\* "ls -la /tmp"
ExampleLine == <<"l", "s", " ", "-", "l", "a", " ", "/", "t", "m", "p">>

\* A line of ArgMax + 1 one-letter tokens, "a b a b ...": more than the ceiling.
LongLine == [i \in 1..(2 * ArgMax + 1) |-> IF i % 2 = 1 THEN (IF i % 4 = 1 THEN "a" ELSE "b") ELSE " "]

\* The lines cmd_parse is applied to; null = TRUE is the NULL pointer.
Lines ==
    {[null |-> FALSE, str |-> s] : s \in SeqsUpTo(ParseChars, MaxLen) \cup {ExampleLine, LongLine}}
    \cup {[null |-> TRUE, str |-> << >>]}

\* Which allocation call of a cmd_parse run returns NULL (0: none does).
FailPoints == 0..(ArgMax + 1)

\* ------------------------------------------------------------------- heap

\* The NULL slot of an argument vector, and a slot pointing at block p holding s.
Null == [ptr |-> 0, str |-> << >>]

Slot(p, s) == [ptr |-> p, str |-> s]

\* The heap of one cmd_parse run: n allocation calls made so far, the blocks
\* they returned, and the non-NULL pointers handed to free, in order.
EmptyHeap == [n |-> 0, allocs |-> {}, frees |-> << >>]

\* malloc / strdup: the call numbered failAt returns NULL, every other call
\* returns a fresh block (named by the number of the call).
alloc(h, failAt) ==
    LET k == h.n + 1
    IN  [ok  |-> k # failAt,
         ptr |-> IF k # failAt THEN k ELSE 0,
         h   |-> [h EXCEPT !.n = k,
                           !.allocs = IF k # failAt THEN @ \cup {k} ELSE @]]

\* free(p): free(NULL) does nothing.
free(h, p) == IF p = 0 THEN h ELSE [h EXCEPT !.frees = Append(@, p)]

\* ----------------------------------------------------------------- strtok

\* strtok's first phase: the first position at or after i that holds no delimiter.
RECURSIVE SkipDelims(_, _)
SkipDelims(s, i) ==
    IF i <= Len(s) /\ s[i] \in Delims THEN SkipDelims(s, i + 1) ELSE i

\* strtok's second phase: the first position at or after i that holds a delimiter
\* (the terminator's position, Len(s) + 1, when there is none).
RECURSIVE ScanToken(_, _)
ScanToken(s, i) ==
    IF i <= Len(s) /\ s[i] \notin Delims THEN ScanToken(s, i + 1) ELSE i

\* strtok(line_copy, " \t") resumed at position pos of the copy s: the token
\* found (<< >> is NULL) and the position the next call resumes at.
strtok(s, pos) ==
    LET start == SkipDelims(s, pos)
        end   == ScanToken(s, start)
    IN  IF start > Len(s)
        THEN [tok |-> << >>, pos |-> start]
        ELSE [tok |-> <<SubSeq(s, start, end - 1)>>,
              pos |-> IF end <= Len(s) THEN end + 1 ELSE end]

\* -------------------------------------------------------------- cmd_parse

\* What a cmd_parse call leaves behind: the pointer returned (retnull: NULL),
\* the vector's slots 0..ArgMax-1, the heap of the call, whether an allocation
\* call returned NULL, the lines written to stderr, and the slot indexes the
\* call read or wrote (a superset of 0..ArgMax-1 would be out of bounds).
ParseResult(retnull, args, h, failed, err, touched) ==
    [retnull |-> retnull, args |-> args, allocs |-> h.allocs, frees |-> h.frees,
     failed |-> failed, err |-> err, touched |-> touched]

NoArgs == [i \in 0..(ArgMax - 1) |-> Null]

\* The free loop of strdup_failure: free(args[i]) for i = from .. count-1.
RECURSIVE FreeArgs(_, _, _, _)
FreeArgs(h, args, from, count) ==
    IF from < count
    THEN FreeArgs(free(h, args[from].ptr), args, from + 1, count)
    ELSE h

\* A plausible slip of strdup_failure: the line copy is not released.
strdup_failure_keeps_copy(args, count, line_copy, h) ==
    free(FreeArgs(h, args, 0, count), 1)

\* strdup_failure(args, count, line_copy): frees args[0..count-1], the vector
\* (the first block of the call) and the line copy; the heap afterwards.
strdup_failure(args, count, line_copy, h) ==
    free(free(FreeArgs(h, args, 0, count), 1), line_copy)

\* The while loop of cmd_parse, from the state st = [args, index, tok, pos, h,
\* failed, touched], with s the line copy, lc its block, failAt the failing call.
RECURSIVE ParseLoop(_, _, _, _)
ParseLoop(st, s, lc, failAt) ==
    IF st.tok # << >> /\ st.index < ArgMax - 1
    THEN LET dup    == alloc(st.h, failAt)
             args1  == [st.args EXCEPT ![st.index] =
                            IF dup.ok THEN Slot(dup.ptr, st.tok[1]) ELSE Null]
             index1 == st.index + 1
             failed == st.failed \/ ~dup.ok
             touch  == st.touched \cup {st.index, index1}
         IN  \* if (!args[index]) on the slot AFTER the one just written
             IF args1[index1] = Null
             THEN ParseResult(TRUE, args1,
                              strdup_failure(args1, index1, lc, dup.h),
                              failed, <<"cmd_parse: strdup failed">>, touch)
             ELSE LET nxt == strtok(s, st.pos)
                  IN  ParseLoop([args |-> args1, index |-> index1, tok |-> nxt.tok,
                                 pos |-> nxt.pos, h |-> dup.h, failed |-> failed,
                                 touched |-> touch], s, lc, failAt)
    ELSE ParseResult(FALSE, [st.args EXCEPT ![st.index] = Null],
                     free(st.h, lc), st.failed, << >>,
                     st.touched \cup {st.index})

\* cmd_parse(line), with the allocation call numbered failAt returning NULL.
cmd_parse(line, failAt) ==
    IF line.null
    THEN ParseResult(TRUE, NoArgs, EmptyHeap, FALSE, << >>, {})
    ELSE LET vec == alloc(EmptyHeap, failAt)
         IN  IF ~vec.ok
             THEN ParseResult(TRUE, NoArgs, vec.h, TRUE,
                              <<"cmd_parse: malloc failed">>, {})
             ELSE LET copy == alloc(vec.h, failAt)
                  IN  IF ~copy.ok
                      THEN ParseResult(TRUE, NoArgs, free(copy.h, vec.ptr), TRUE,
                                       <<"cmd_parse: strdup failed">>,
                                       0..(ArgMax - 1))
                      ELSE LET first == strtok(line.str, 1)
                           IN  ParseLoop([args |-> NoArgs, index |-> 0,
                                          tok |-> first.tok, pos |-> first.pos,
                                          h |-> copy.h, failed |-> FALSE,
                                          touched |-> 0..(ArgMax - 1)],
                                         line.str, copy.ptr, failAt)

\* The free loop of cmd_free: free(line[i]) while line[i] is not NULL.
RECURSIVE FreeUntilNull(_, _, _)
FreeUntilNull(h, args, i) ==
    IF i <= ArgMax - 1 /\ args[i] # Null
    THEN FreeUntilNull(free(h, args[i].ptr), args, i + 1)
    ELSE h

\* cmd_free(line) on the result r of a cmd_parse call: the call's heap afterwards.
cmd_free(r) ==
    LET h == [n |-> 0, allocs |-> r.allocs, frees |-> r.frees]
    IN  IF r.retnull THEN h ELSE free(FreeUntilNull(h, r.args, 0), 1)

\* ------------------------------------------------------------- trim_white

\* The terminator byte of a buffer.
NUL == "NUL"

\* The characters isspace accepts in the C locale ("VT" stands for '\v').
Whitespace == {" ", "\t", "\n", "\f", "\r", "VT"}

isspace(c) == c \in Whitespace

TrimChars == {" ", "\t", "\n", "a", "b"}

\* "  ls -a  "
ExampleBuf == <<" ", " ", "l", "s", " ", "-", "a", " ", " ">>

\* The buffers trim_white is applied to: a text and its terminator, or NULL.
Buffers ==
    {[null |-> FALSE, bytes |-> Append(s, NUL)] :
        s \in SeqsUpTo(TrimChars, MaxBuf) \cup {ExampleBuf}}
    \cup {[null |-> TRUE, bytes |-> << >>]}

\* while (isspace(*line)) line++, from position i of the buffer.
RECURSIVE SkipSpace(_, _)
SkipSpace(bytes, i) ==
    IF isspace(bytes[i]) THEN SkipSpace(bytes, i + 1) ELSE i

\* strlen(line) for line at position i: the bytes before the next terminator.
RECURSIVE strlen(_, _)
strlen(bytes, i) ==
    IF bytes[i] = NUL THEN 0 ELSE 1 + strlen(bytes, i + 1)

\* A plausible slip of the trailing loop: it never steps back.
TrimEnd_keeps_trailing(bytes, line, end) == end

\* while ((end > line) && isspace(*end)) end--.
RECURSIVE TrimEnd(_, _, _)
TrimEnd(bytes, line, end) ==
    IF end > line /\ isspace(bytes[end]) THEN TrimEnd(bytes, line, end - 1) ELSE end

\* trim_white(line) on buffer b: the pointer returned (a position of the
\* buffer, 0 for NULL), the buffer afterwards and the positions written.
trim_white(b) ==
    IF b.null
    THEN [ret |-> 0, bytes |-> b.bytes, writes |-> << >>]
    ELSE LET line == SkipSpace(b.bytes, 1)
         IN  IF b.bytes[line] = NUL
             THEN [ret |-> line, bytes |-> b.bytes, writes |-> << >>]
             ELSE LET end == TrimEnd(b.bytes, line, line + strlen(b.bytes, line) - 1)
                  IN  [ret |-> line,
                       bytes |-> [b.bytes EXCEPT ![end + 1] = NUL],
                       writes |-> <<end + 1>>]

\* ------------------------------------------------------ session, built-ins

\* EXIT_SUCCESS, the status do_builtin hands to exit.
EXIT_SUCCESS == 0

\* STDIN_FILENO, the descriptor sh_init records as the shell's terminal.
STDIN_FILENO == 0

\* The directories that exist, and those among them chdir is refused on.
Dirs == {"/", "/tmp", "/home/u", "/home/pw", "/root"}

Denied == {"/root"}

\* The signals setup_signal_handling sets to SIG_IGN.
IgnoredSignals == {"SIGINT", "SIGQUIT", "SIGTSTP", "SIGTTIN", "SIGTTOU"}

\* The values of MY_PROMPT and HOME, the passwd entry's pw_dir of the real
\* user id and readline's history list the process may start with
\* (<< >>: unset / no entry / history_list() returns NULL).
PromptEnvs == {<< >>, <<"">>, <<"$ ">>}

HomeEnvs == {<< >>, <<"/home/u">>, <<"/nowhere">>}

PasswdDirs == {<< >>, <<"/home/pw">>}

Histories == {<< >>, <<"ls", "cd /tmp">>}

\* The argument vectors handed to do_builtin (the NULL sentinel is implicit:
\* argv[i] is NULL exactly for i past the end of the sequence).
Vectors ==
    {<< >>, <<"exit">>, <<"exit", "now">>, <<"cd">>, <<"cd", "/tmp">>,
     <<"cd", "/nowhere">>, <<"cd", "/root">>, <<"cd", "/home/u", "/tmp">>,
     <<"history">>, <<"ls">>, <<"ls", "-la", "/tmp">>, <<"exits">>, <<"/tmp">>}

\* strdup(s): NULL when the allocation fails.
strdup(s, ok) == IF ok THEN <<s>> ELSE << >>

\* A plausible slip of get_prompt: an empty value counts as unset.
get_prompt_skips_empty(value, ok) ==
    strdup(IF value # << >> /\ value[1] # "" THEN value[1] ELSE "shell>", ok)

\* get_prompt(env), value being what getenv(env) returns.
get_prompt(value, ok) ==
    strdup(IF value # << >> THEN value[1] ELSE "shell>", ok)

\* chdir(path): 0 and the new working directory, or -1 and the old one.
chdir(path, cwd) ==
    IF path \in Dirs \ Denied THEN [ret |-> 0, cwd |-> path]
                             ELSE [ret |-> -1, cwd |-> cwd]

Call(fn, arg) == [fn |-> fn, arg |-> arg]

\* A plausible slip of the target's resolution: the passwd entry is looked up
\* before HOME is read.
CdTarget_passwd_first(dir, home, pw) ==
    IF dir # << >> THEN [path |-> <<dir[1]>>, look |-> << >>]
    ELSE IF pw # << >>
    THEN [path |-> pw, look |-> <<Call("getuid", ""), Call("getpwuid", "")>>]
    ELSE [path |-> home,
          look |-> <<Call("getuid", ""), Call("getpwuid", ""), Call("getenv", "HOME")>>]

\* The target of change_dir(dir): dir is argv + 1, home what getenv("HOME")
\* returns, pw the pw_dir of getpwuid(getuid()) (<< >>: no entry).  The path
\* chosen (<< >>: none) and the library calls made to choose it, in order.
CdTarget(dir, home, pw) ==
    IF dir # << >> THEN [path |-> <<dir[1]>>, look |-> << >>]
    ELSE IF home # << >>
    THEN [path |-> home, look |-> <<Call("getenv", "HOME")>>]
    ELSE [path |-> pw,
          look |-> <<Call("getenv", "HOME"), Call("getuid", ""), Call("getpwuid", "")>>]

\* A plausible slip of change_dir: a failed chdir is not reported.
CdApply_hides_failure(t, cwd) ==
    IF t.path = << >>
    THEN [ret |-> -1, cwd |-> cwd, calls |-> t.look,
          err |-> <<"cd: Could not determine home directory">>]
    ELSE LET r == chdir(t.path[1], cwd)
         IN  [ret |-> 0, cwd |-> r.cwd,
              calls |-> Append(t.look, Call("chdir", t.path[1])), err |-> << >>]

\* The rest of change_dir, for the target t: the value returned, the working
\* directory afterwards, every library call made, and the lines on stderr
\* (perror("cd") prints "cd: " and the message of errno).
CdApply(t, cwd) ==
    IF t.path = << >>
    THEN [ret |-> -1, cwd |-> cwd, calls |-> t.look,
          err |-> <<"cd: Could not determine home directory">>]
    ELSE LET r == chdir(t.path[1], cwd)
         IN  [ret |-> r.ret, cwd |-> r.cwd,
              calls |-> Append(t.look, Call("chdir", t.path[1])),
              err |-> IF r.ret # 0 THEN <<"cd: <strerror(errno)>">> ELSE << >>]

\* change_dir(dir).
change_dir(dir, home, pw, cwd) == CdApply(CdTarget(dir, home, pw), cwd)

\* print_history(): the lines printed ("<n>.) <line>") and the stderr lines.
print_history(hist) ==
    IF hist = << >>
    THEN [out |-> << >>, err |-> <<"Command history is empty.">>]
    ELSE [out |-> [i \in 1..Len(hist) |-> [n |-> i, line |-> hist[i]]],
          err |-> << >>]

\* sh_destroy(sh): free(sh->prompt), on the state of the prompt's block
\* ("none": never allocated, "live", "freed", "double": freed twice).
sh_destroy(prompt, block) ==
    IF prompt = << >> THEN block
    ELSE IF block = "live" THEN "freed" ELSE "double"

\* What a do_builtin call does: the value returned ("none" when the call
\* does not return), whether exit was called, and the state it leaves.
Builtin(ret, exits, cdret, cwd, block, destroys, calls, out, err) ==
    [ret |-> ret, exits |-> exits, cdret |-> cdret, cwd |-> cwd, block |-> block,
     destroys |-> destroys, calls |-> calls, out |-> out, err |-> err]

\* A plausible slip of the exit branch: the session is released and the call
\* returns "handled" instead of ending the process.
ExitBranch_returns(prompt, block, cwd) ==
    Builtin("true", FALSE, << >>, cwd, sh_destroy(prompt, block), 1,
            << >>, << >>, << >>)

\* do_builtin's branch for "exit": sh_destroy(sh), then exit(EXIT_SUCCESS).
ExitBranch(prompt, block, cwd) ==
    Builtin("none", TRUE, << >>, cwd, sh_destroy(prompt, block), 1,
            << >>, << >>, << >>)

\* A plausible slip of the cd branch: it returns whether change_dir succeeded.
CdBranch_status(argv, block, home, pw, cwd) ==
    LET r == change_dir(Tail(argv), home, pw, cwd)
    IN  Builtin(IF r.ret = 0 THEN "true" ELSE "false", FALSE, <<r.ret>>, r.cwd,
                block, 0, r.calls, << >>, r.err)

\* do_builtin's branch for "cd": change_dir(argv + 1), then return true.
CdBranch(argv, block, home, pw, cwd) ==
    LET r == change_dir(Tail(argv), home, pw, cwd)
    IN  Builtin("true", FALSE, <<r.ret>>, r.cwd, block, 0, r.calls, << >>, r.err)

\* do_builtin(sh, argv).
do_builtin(argv, prompt, block, home, pw, hist, cwd) ==
    IF argv = << >>
    THEN Builtin("false", FALSE, << >>, cwd, block, 0, << >>, << >>, << >>)
    ELSE IF argv[1] = "exit" THEN ExitBranch(prompt, block, cwd)
    ELSE IF argv[1] = "cd" THEN CdBranch(argv, block, home, pw, cwd)
    ELSE IF argv[1] = "history"
    THEN LET h == print_history(hist)
         IN  Builtin("true", FALSE, << >>, cwd, block, 0, << >>, h.out, h.err)
    ELSE Builtin("false", FALSE, << >>, cwd, block, 0, << >>, << >>, << >>)

\* setup_process_group(sh): shell_pgid = getpid(), then setpgid and tcsetpgrp,
\* whose results r1 and r2 are not looked at.  The session's shell_pgid and
\* the process afterwards.
setup_process_group(p, r1, r2) ==
    [shell_pgid |-> p.pid,
     proc |-> [p EXCEPT !.pgid = IF r1 = 0 THEN p.pid ELSE @,
                        !.fg   = IF r2 = 0 THEN p.pid ELSE @]]

\* setup_signal_handling(): the five signal() calls.
setup_signal_handling(p) == [p EXCEPT !.ignored = @ \cup IgnoredSignals]

\* sh_init(sh): value is getenv("MY_PROMPT"), oks the outcomes of the strdup
\* calls made (one, or two when the first fails), r1 and r2 the results of
\* setpgid and tcsetpgrp.  The session and the process afterwards.
sh_init(value, oks, p, r1, r2) ==
    LET first  == get_prompt(value, oks[1])
        prompt == IF first = << >> THEN strdup("shell>", oks[2]) ELSE first
        grp    == setup_process_group(p, r1, r2)
    IN  [sh   |-> [prompt |-> prompt, shell_terminal |-> STDIN_FILENO,
                   shell_pgid |-> grp.shell_pgid],
         proc |-> setup_signal_handling(grp.proc)]

\* ------------------------------------------------------------------ state

VARIABLES
    pline,      \* the line handed to cmd_parse
    pfail,      \* the allocation call of that cmd_parse run that returns NULL
    pres,       \* what the cmd_parse call (and then cmd_free) left behind
    ppc,        \* "idle", "call", "returned" (cmd_parse), "released" (cmd_free)
    tbuf,       \* the buffer handed to trim_white, as it was before the call
    tres,       \* what the trim_white call left behind
    tpc,        \* "idle", "call", "returned"
    pc,         \* "start", "running", "exiting" (inside exit's branch), "exited"
    sh,         \* struct shell: prompt, shell_terminal, shell_pgid
    block,      \* the state of the block sh.prompt points at
    destroys,   \* the number of sh_destroy calls made
    status,     \* the exit status of the process (<< >> while it runs)
    env,        \* the environment: MY_PROMPT and HOME
    passwd,     \* pw_dir of the real user id's passwd entry
    history,    \* readline's history list
    cwd,        \* the process's working directory
    proc,       \* the process: pid, process group, the terminal's foreground
                \* group, the signals it ignores
    sys,        \* the results of sh_init's setpgid and tcsetpgrp
    mem,        \* the outcomes of sh_init's strdup calls
    last,       \* the last do_builtin call: argv, value returned, change_dir's
                \* value, the library calls change_dir made
    out,        \* the lines the last call put on stdout
    err         \* the lines the last call put on stderr

parseVars == <<pline, pfail, pres, ppc>>

trimVars == <<tbuf, tres, tpc>>

shellVars == <<pc, sh, block, destroys, status, env, passwd, history, cwd, proc,
               sys, mem, last, out, err>>

vars == <<parseVars, trimVars, shellVars>>

NullLine == [null |-> TRUE, str |-> << >>]

NullBuf == [null |-> TRUE, bytes |-> << >>]

NoCall == [argv |-> << >>, ret |-> "none", cdret |-> << >>, calls |-> << >>]

\* No tokenizer call is under way.
ParseIdle ==
    /\ pline = NullLine
    /\ pfail = 0
    /\ pres = cmd_parse(NullLine, 0)
    /\ ppc = "idle"

\* No trim_white call is under way.
TrimIdle ==
    /\ tbuf = NullBuf
    /\ tres = trim_white(NullBuf)
    /\ tpc = "idle"

\* The process at its start, before sh_init: the fields of the session are
\* not yet set (no operation reads them before sh_init has written them).
ShellStart(prompt, home, pw, hist, dir) ==
    /\ pc = "start"
    /\ sh = [prompt |-> << >>, shell_terminal |-> -1, shell_pgid |-> -1]
    /\ block = "none"
    /\ destroys = 0
    /\ status = << >>
    /\ env = [MY_PROMPT |-> prompt, HOME |-> home]
    /\ passwd = pw
    /\ history = hist
    /\ cwd = dir
    /\ proc = [pid |-> 100, pgid |-> 1, fg |-> 1, ignored |-> {}]
    /\ sys = [setpgid |-> 0, tcsetpgrp |-> 0]
    /\ mem = << >>
    /\ last = NoCall
    /\ out = << >>
    /\ err = << >>

\* ---------------------------------------------------------------- actions

\* cmd_parse(pline), any one of its allocation calls failing (or none).
CmdParse ==
    /\ ppc = "call"
    /\ \E f \in FailPoints :
          /\ pfail' = f
          /\ pres' = cmd_parse(pline, f)
    /\ ppc' = "returned"
    /\ UNCHANGED <<pline, trimVars, shellVars>>

\* cmd_free on what cmd_parse returned.
CmdFree ==
    /\ ppc = "returned"
    /\ pres' = [pres EXCEPT !.frees = cmd_free(pres).frees]
    /\ ppc' = "released"
    /\ UNCHANGED <<pline, pfail, trimVars, shellVars>>

\* trim_white(tbuf).
TrimWhite ==
    /\ tpc = "call"
    /\ tres' = trim_white(tbuf)
    /\ tpc' = "returned"
    /\ UNCHANGED <<tbuf, parseVars, shellVars>>

\* sh_init(&sh) at startup.
ShInit ==
    /\ pc = "start"
    /\ \E oks \in {<<TRUE>>, <<FALSE, TRUE>>, <<FALSE, FALSE>>}, r1, r2 \in {0, -1} :
          LET r == sh_init(env.MY_PROMPT, oks, proc, r1, r2)
          IN  /\ sh' = r.sh
              /\ proc' = r.proc
              /\ block' = IF r.sh.prompt = << >> THEN "none" ELSE "live"
              /\ mem' = oks
              /\ sys' = [setpgid |-> r1, tcsetpgrp |-> r2]
    /\ pc' = "running"
    /\ UNCHANGED <<destroys, status, env, passwd, history, cwd, last, out, err,
                   parseVars, trimVars>>

\* do_builtin(&sh, argv) for one command of the read loop.  A call that
\* reaches exit() is left inside its exit branch, the session released.
DoBuiltin ==
    /\ pc = "running"
    /\ \E argv \in Vectors :
          LET r == do_builtin(argv, sh.prompt, block, env.HOME, passwd, history, cwd)
          IN  /\ last' = [argv |-> argv, ret |-> r.ret, cdret |-> r.cdret,
                          calls |-> r.calls]
              /\ cwd' = r.cwd
              /\ block' = r.block
              /\ destroys' = destroys + r.destroys
              /\ out' = r.out
              /\ err' = r.err
              /\ pc' = IF r.exits THEN "exiting" ELSE "running"
    /\ UNCHANGED <<sh, status, env, passwd, history, proc, sys, mem,
                   parseVars, trimVars>>

\* exit(EXIT_SUCCESS) at the end of do_builtin's exit branch.
Exit ==
    /\ pc = "exiting"
    /\ pc' = "exited"
    /\ status' = <<EXIT_SUCCESS>>
    /\ UNCHANGED <<sh, block, destroys, env, passwd, history, cwd, proc, sys, mem,
                   last, out, err, parseVars, trimVars>>

\* --------------------------------------------------------- specifications

\* The shell: sh_init, then the commands dispatched, up to an exit.
Init ==
    /\ \E prompt \in PromptEnvs, home \in HomeEnvs, pw \in PasswdDirs,
          hist \in Histories, dir \in {"/", "/tmp"} :
          ShellStart(prompt, home, pw, hist, dir)
    /\ ParseIdle
    /\ TrimIdle

Next == ShInit \/ DoBuiltin \/ Exit

Spec == Init /\ [][Next]_vars

\* The tokenizer applied to every line of Lines, then the vector released.
InitParse ==
    /\ pline \in Lines
    /\ pfail = 0
    /\ pres = cmd_parse(NullLine, 0)
    /\ ppc = "call"
    /\ TrimIdle
    /\ ShellStart(<< >>, << >>, << >>, << >>, "/")

NextParse == CmdParse \/ CmdFree

SpecParse == InitParse /\ [][NextParse]_vars

\* The normalizer applied to every buffer of Buffers.
InitTrim ==
    /\ tbuf \in Buffers
    /\ tres = trim_white(NullBuf)
    /\ tpc = "call"
    /\ ParseIdle
    /\ ShellStart(<< >>, << >>, << >>, << >>, "/")

NextTrim == TrimWhite

SpecTrim == InitTrim /\ [][NextTrim]_vars

\* ------------------------------------------------------ claims: tokenizer

\* The maximal runs of non-space, non-tab characters of s from position i on,
\* cur being the run under way.
RECURSIVE Runs(_, _, _)
Runs(s, i, cur) ==
    IF i > Len(s) THEN (IF cur = << >> THEN << >> ELSE <<cur>>)
    ELSE IF s[i] = " " \/ s[i] = "\t"
    THEN (IF cur = << >> THEN << >> ELSE <<cur>>) \o Runs(s, i + 1, << >>)
    ELSE Runs(s, i + 1, Append(cur, s[i]))

Tokens(s) == Runs(s, 1, << >>)

\* The slots of a vector before its first NULL slot, from slot i on.
RECURSIVE Before(_, _)
Before(args, i) ==
    IF i > ArgMax - 1 \/ args[i] = Null THEN << >>
    ELSE <<args[i]>> \o Before(args, i + 1)

\* How often block b was handed to free.
Freed(r, b) == Cardinality({i \in 1..Len(r.frees) : r.frees[i] = b})

\* The vector returned holds exactly the strings toks, each in a live block of
\* its own, then NULL; only the vector's block and the tokens' are live.
Returns(r, toks) ==
    LET v == Before(r.args, 0)
    IN  /\ ~r.retnull
        /\ [i \in 1..Len(v) |-> v[i].str] = toks
        /\ \A i \in 1..Len(v) : v[i].ptr \in r.allocs /\ Freed(r, v[i].ptr) = 0
        /\ \A i, j \in 1..Len(v) : i # j => v[i].ptr # v[j].ptr
        /\ r.args[Len(v)] = Null
        /\ {b \in r.allocs : Freed(r, b) = 0} = {1} \cup {v[i].ptr : i \in 1..Len(v)}

\* C1: for a non-null line of at most ArgMax-1 tokens (and no allocation
\* failing), cmd_parse returns a non-null vector of exactly the line's maximal
\* runs of non-space, non-tab characters, in order, each an owned copy, then
\* the NULL sentinel.
C1_ParsesEveryToken ==
    (ppc = "returned" /\ ~pline.null /\ ~pres.failed
        /\ Len(Tokens(pline.str)) <= ArgMax - 1)
    => Returns(pres, Tokens(pline.str))

\* C2: for a non-null line of more than ArgMax-1 tokens (and no allocation
\* failing), cmd_parse returns a non-null vector of exactly the first ArgMax-1
\* tokens and the NULL sentinel, touches no slot past index ArgMax-1 and
\* reports no error.
C2_TruncatesAtCeiling ==
    (ppc = "returned" /\ ~pline.null /\ ~pres.failed
        /\ Len(Tokens(pline.str)) > ArgMax - 1)
    => /\ Returns(pres, SubSeq(Tokens(pline.str), 1, ArgMax - 1))
       /\ pres.touched \subseteq 0..(ArgMax - 1)
       /\ pres.err = << >>

\* C3: when an allocation inside cmd_parse fails, cmd_parse returns NULL and
\* every block the call allocated has been freed exactly once (and nothing
\* else was freed).
C3_FailureFreesAll ==
    (ppc = "returned" /\ pres.failed)
    => /\ pres.retnull
       /\ \A b \in pres.allocs : Freed(pres, b) = 1
       /\ \A i \in 1..Len(pres.frees) : pres.frees[i] \in pres.allocs

\* C3's case: the strdup of a token failed after the vector and the line copy
\* were allocated, and both are released.
C3_Witness ==
    /\ ppc = "returned"
    /\ pres.failed
    /\ pfail = 3
    /\ pres.allocs = {1, 2}
    /\ pres.retnull
    /\ Freed(pres, 1) = 1 /\ Freed(pres, 2) = 1

\* ----------------------------------------------------- claims: normalizer

\* The text of a buffer from position i to the next terminator.
RECURSIVE Text(_, _)
Text(bytes, i) ==
    IF bytes[i] = NUL THEN << >> ELSE <<bytes[i]>> \o Text(bytes, i + 1)

RECURSIVE DropLeading(_)
DropLeading(s) ==
    IF s # << >> /\ Head(s) \in Whitespace THEN DropLeading(Tail(s)) ELSE s

RECURSIVE DropTrailing(_)
DropTrailing(s) ==
    IF s # << >> /\ s[Len(s)] \in Whitespace
    THEN DropTrailing(SubSeq(s, 1, Len(s) - 1)) ELSE s

\* The position right after the last non-whitespace character of the text s.
AfterLastInk(s) == Len(DropTrailing(s)) + 1

C4_PromptNeverEmpty ==
    (pc # "start" /\ mem = <<TRUE>>)
    => /\ sh.prompt # << >>
       /\ sh.prompt # <<"">>
       /\ sh.prompt = IF env.MY_PROMPT # << >> /\ env.MY_PROMPT # <<"">>
                      THEN env.MY_PROMPT ELSE <<"shell>">>

\* C4 amended: after sh_init, when get_prompt's allocation succeeded the
\* prompt is non-NULL and is MY_PROMPT's value whenever the variable is set
\* (the empty string when it is set to the empty string), "shell>" only when
\* it is unset; when that allocation failed the prompt is "shell>" if the
\* second strdup succeeded and NULL if it failed too.
C4_PromptFromEnv ==
    pc # "start"
    => /\ mem[1] => /\ sh.prompt # << >>
                    /\ sh.prompt = IF env.MY_PROMPT # << >> THEN env.MY_PROMPT
                                   ELSE <<"shell>">>
       /\ mem = <<FALSE, TRUE>> => sh.prompt = <<"shell>">>
       /\ mem = <<FALSE, FALSE>> => sh.prompt = << >>

\* C4's case: MY_PROMPT is set to the empty string and sh_init has returned.
C4_Witness ==
    /\ pc = "running"
    /\ env.MY_PROMPT = <<"">>
    /\ mem = <<TRUE>>
    /\ sh.prompt = <<"">>

\* C10: sh_init does not complete into a usable session when setpgid or
\* tcsetpgrp failed.
C10_PgrpFailureIsFatal ==
    pc = "running" => sys.setpgid = 0 /\ sys.tcsetpgrp = 0

\* ----------------------------------------------------- claims: dispatcher

NotBuiltin(argv) == argv = << >> \/ argv[1] \notin {"exit", "cd", "history"}

\* C6: do_builtin returns false exactly for a sentinel-only vector or a first
\* token other than "exit", "cd", "history", and then changes nothing of the
\* session, the working directory or the output; for "cd" and "history" it
\* returns true, for "cd" whether or not the directory change succeeded.
C6_HandledExactlyBuiltins ==
    [][pc = "running" =>
        LET a == last'.argv
        IN  /\ last'.ret = "false" <=> NotBuiltin(a)
            /\ NotBuiltin(a) =>
                  /\ UNCHANGED <<sh, block, destroys, status, cwd, proc>>
                  /\ pc' = "running"
                  /\ out' = << >> /\ err' = << >>
            /\ (a # << >> /\ a[1] \in {"cd", "history"}) => last'.ret = "true"
            /\ (a # << >> /\ a[1] = "cd") => last'.cdret \in {<<0>>, <<-1>>}]_vars

\* C6's case: a vector that names no built-in was dispatched.
C6_Witness ==
    /\ pc = "running"
    /\ last.argv = <<"ls", "-la", "/tmp">>
    /\ last.ret = "false"
    /\ out = << >> /\ err = << >>

\* C7: change_dir uses an explicit argument verbatim without consulting HOME
\* or the passwd database; without one it uses HOME when set; only with HOME
\* unset does it look up the passwd entry of the real user id; and when that
\* fails too it returns -1 without calling chdir.
C7_TargetPriority ==
    (last.argv # << >> /\ last.argv[1] = "cd")
    => LET getenv == Call("getenv", "HOME")
           lookup == <<Call("getuid", ""), Call("getpwuid", "")>>
       IN  IF Len(last.argv) >= 2
           THEN last.calls = <<Call("chdir", last.argv[2])>>
           ELSE IF env.HOME # << >>
           THEN last.calls = <<getenv, Call("chdir", env.HOME[1])>>
           ELSE IF passwd # << >>
           THEN last.calls = <<getenv>> \o lookup \o <<Call("chdir", passwd[1])>>
           ELSE last.calls = <<getenv>> \o lookup /\ last.cdret = <<-1>>

\* C7's case: "cd" with HOME unset and a passwd entry changed to its pw_dir.
C7_Witness ==
    /\ last.argv = <<"cd">>
    /\ env.HOME = << >>
    /\ passwd = <<"/home/pw">>
    /\ last.cdret = <<0>>
    /\ cwd = "/home/pw"

\* The calls of a change_dir run that failed: no chdir was made, or the one
\* made was on a path chdir refuses.
CdFailed(calls) ==
    \/ calls = << >>
    \/ calls[Len(calls)].fn # "chdir"
    \/ calls[Len(calls)].arg \notin Dirs \ Denied

\* C8: whenever a cd fails, change_dir returns -1, the working directory is
\* as before, a line is written to stderr, the process goes on running and
\* the session is unchanged.
C8_FailedCdIsHarmless ==
    [][(pc = "running" /\ last'.argv # << >> /\ last'.argv[1] = "cd"
            /\ CdFailed(last'.calls))
        => /\ last'.cdret = <<-1>>
           /\ cwd' = cwd
           /\ err' # << >>
           /\ pc' = "running" /\ status' = << >>
           /\ UNCHANGED <<sh, block, destroys, proc>>]_vars

\* C8's case: cd to a directory that does not exist.
C8_Witness ==
    /\ pc = "running"
    /\ last.argv = <<"cd", "/nowhere">>
    /\ last.cdret = <<-1>>
    /\ err # << >>

\* C9: dispatching "exit" calls sh_destroy exactly once, releasing the prompt,
\* before the process ends with EXIT_SUCCESS; do_builtin does not return, and
\* the exit is the last command processed.
C9_ExitReleasesThenEnds ==
    /\ destroys <= 1
    /\ destroys = 1 <=> pc \in {"exiting", "exited"}
    /\ pc \in {"exiting", "exited"} =>
          /\ last.argv # << >> /\ last.argv[1] = "exit"
          /\ last.ret = "none"
          /\ block = IF sh.prompt = << >> THEN "none" ELSE "freed"
    /\ pc = "running" => block # "freed" /\ (last.argv = << >> \/ last.argv[1] # "exit")
    /\ status # << >> <=> pc = "exited"
    /\ pc = "exited" => status = <<EXIT_SUCCESS>>
    /\ block # "double"

\* C9's case: the process has ended after an exit, its prompt released.
C9_Witness ==
    /\ pc = "exited"
    /\ last.argv = <<"exit">>
    /\ block = "freed"
    /\ destroys = 1
    /\ status = <<EXIT_SUCCESS>>

====
